---- MODULE Spec2Model ----
(***************************************************************************)
(* Model of the request/response orchestration layer of BibleWisdom-AI:    *)
(* the two service modules (services/geminiService.ts and                  *)
(* services/aiService.ts), their retry wrapper callWithRetry, the cloud    *)
(* client, the local (Ollama) client and the provider dispatcher.          *)
(* The conversation controller (App.tsx and its variants) is modelled as   *)
(* far as it calls the service: handleSend, the retry button, the          *)
(* selectors of version and settings, the favorites and the storage.       *)
(*                                                                         *)
(* JavaScript values are modelled as follows.                              *)
(*  - an object is a function whose DOMAIN is the set of its keys that     *)
(*    hold a defined value (a key holding undefined is not in the DOMAIN); *)
(*  - a string is a TLA+ string; String.prototype.includes is modelled by  *)
(*    the set of the tokens 503/429/overloaded/fetch the string contains;  *)
(*  - the value a promise resolves to is [type |-> "object", fields |-> f] *)
(*    or [type |-> "null"].                                                *)
(***************************************************************************)
EXTENDS Integers, Sequences, FiniteSets, TLC

\* ------------------------------------------------------------------------
\* Bounds of the model
\* ------------------------------------------------------------------------

\* largest maxRetries handed to callWithRetry when it is driven directly
MaxRetriesBound == 4

\* number of invocations of handleSend followed in one session
MaxSends == 4

\* number of invocations of handleSend followed where the selectors of the
\* version and the settings, and the storage, are followed as well
MaxSettingsSends == 1

\* number of invocations of handleSend followed where the favorites are
\* followed as well
MaxFavoriteSends == 2

\* number of intervals the range of Math.random() is sampled at
JitterSteps == 2

\* ------------------------------------------------------------------------
\* Program constants
\* ------------------------------------------------------------------------

\* default of the maxRetries parameter
DefaultMaxRetries == 3

\* Math.pow(2, attempt) * 1000: milliseconds per backoff unit
BaseDelayMs == 1000

\* Math.random() * 1000: the jitter is in [0, 1000) milliseconds
JitterRangeMs == 1000

Undefined == "<undefined>"

Fields == {"answer", "reference", "topic", "explanation"}

Providers == {"gemini", "ollama", "openai"}

Modules == {"geminiService", "aiService"}

\* the substrings the code searches error texts for
Tokens == {"503", "429", "overloaded", "fetch"}

\* ------------------------------------------------------------------------
\* Messages and placeholder results written in the source
\* ------------------------------------------------------------------------

FallbackOf ==
  [answer |-> "No scriptural answer found.",
   reference |-> "Unknown",
   topic |-> "Wisdom",
   explanation |-> ""]

MsgBusy == "The service is currently busy. Please wait a moment and try again."
MsgCapacity == "Google's AI servers are currently at capacity. Please try again in a few seconds."
MsgRateLimit == "Too many requests. Please slow down a bit."
MsgConnection == "Connection lost. Please check your internet or VPN."
MsgOllama == "Could not connect to Ollama. Ensure Ollama is running and OLLAMA_ORIGINS='*' is set."
MsgKeyMissingGs == "API Key is missing."
MsgKeyMissingAs == "Gemini API Key missing."

Obj(f) == [type |-> "object", fields |-> f]

Null == [type |-> "null"]

Pending == [type |-> "pending"]

\* geminiService.getBibleWisdom, no credential
GsConfigResult ==
  Obj([answer |-> "Error", reference |-> "", topic |-> "Config",
       explanation |-> "", error |-> MsgKeyMissingGs])

\* aiService.getGeminiWisdom, no credential
AsConfigResult ==
  Obj([answer |-> "Error", reference |-> "", topic |-> "Config",
       explanation |-> "", error |-> MsgKeyMissingAs])

\* geminiService.getBibleWisdom, catch block
GsErrorResult(errorMessage) ==
  Obj([answer |-> "Connection Issue", reference |-> "", topic |-> "Error",
       explanation |-> "", error |-> errorMessage])

\* aiService.getOllamaWisdom, catch block
OllamaErrorResult ==
  Obj([answer |-> "Local Service Error", reference |-> "", topic |-> "Network",
       explanation |-> "", error |-> MsgOllama])

\* ------------------------------------------------------------------------
\* Errors a transport call can reject with, and errors raised by the
\* client's own parse step.  msgHas: tokens in (error.message || "");
\* jsonHas: tokens in (typeof error === 'string' ? error :
\* JSON.stringify(error)); JSON.stringify of an Error shows only its
\* enumerable own properties (name and status of the SDK's ApiError), never
\* its message.
\* ------------------------------------------------------------------------

ApiError503 ==
  [id |-> "ApiError503", isString |-> FALSE,
   message |-> "{code:503, message:'The model is overloaded. Please try again later.', status:'UNAVAILABLE'}",
   msgHas |-> {"503", "overloaded"}, jsonHas |-> {"503"}]

ApiError429 ==
  [id |-> "ApiError429", isString |-> FALSE,
   message |-> "{code:429, message:'Resource has been exhausted.', status:'RESOURCE_EXHAUSTED'}",
   msgHas |-> {"429"}, jsonHas |-> {"429"}]

Error429 ==
  [id |-> "Error429", isString |-> FALSE,
   message |-> "HTTP 429 Too Many Requests",
   msgHas |-> {"429"}, jsonHas |-> {}]

ErrorOverloaded ==
  [id |-> "ErrorOverloaded", isString |-> FALSE,
   message |-> "The model is overloaded.",
   msgHas |-> {"overloaded"}, jsonHas |-> {}]

ErrorFetch ==
  [id |-> "ErrorFetch", isString |-> FALSE,
   message |-> "Failed to fetch",
   msgHas |-> {"fetch"}, jsonHas |-> {}]

ApiError400 ==
  [id |-> "ApiError400", isString |-> FALSE,
   message |-> "{code:400, message:'API key not valid.', status:'INVALID_ARGUMENT'}",
   msgHas |-> {}, jsonHas |-> {}]

\* a rejection whose reason is a bare string: it has no .message
String503 ==
  [id |-> "String503", isString |-> TRUE,
   message |-> Undefined,
   msgHas |-> {}, jsonHas |-> {"503"}]

\* JSON.parse on a text that is not JSON
SyntaxErr ==
  [id |-> "SyntaxError", isString |-> FALSE,
   message |-> "Unexpected token in JSON",
   msgHas |-> {}, jsonHas |-> {}]

\* property read on null or undefined
TypeErr ==
  [id |-> "TypeError", isString |-> FALSE,
   message |-> "Cannot read properties of null",
   msgHas |-> {}, jsonHas |-> {}]

\* callWithRetry's lastError before any attempt has failed
NoError ==
  [id |-> "undefined", isString |-> FALSE,
   message |-> Undefined,
   msgHas |-> {}, jsonHas |-> {}]

TransportErrors ==
  {ApiError503, ApiError429, Error429, ErrorOverloaded, ErrorFetch,
   ApiError400, String503}

\* ------------------------------------------------------------------------
\* Payloads
\* ------------------------------------------------------------------------

\* a sample non-empty value of each field
TextOf ==
  [answer |-> "Trust in the Lord with all your heart.",
   reference |-> "Proverbs 3:5",
   topic |-> "Trust",
   explanation |-> "Lean not on your own understanding."]

\* every four-field object with each field missing, empty or non-empty
JsonObjects ==
  { [k \in st[1] |-> IF k \in st[2] THEN TextOf[k] ELSE ""] :
      st \in { x \in (SUBSET Fields) \X (SUBSET Fields) : x[2] \subseteq x[1] } }

FullObject == [k \in Fields |-> TextOf[k]]

\* result.text of the cloud response: absent, not JSON, the JSON text
\* null, or the JSON text of an object
TextUndefined == [type |-> "undefined"]

TextInvalid == [type |-> "invalid"]

TextNull == [type |-> "null"]

TextObject(o) == [type |-> "object", obj |-> o]

CloudTexts ==
  {TextUndefined, TextInvalid, TextNull} \cup { TextObject(o) : o \in JsonObjects }

\* the texts used when callWithRetry is driven directly: the wrapper never
\* looks into the value its operation resolves to
DirectTexts == {TextUndefined, TextObject(FullObject)}

\* ------------------------------------------------------------------------
\* Pure helpers
\* ------------------------------------------------------------------------

\* o.k for an object o
Get(o, k) == IF k \in DOMAIN o THEN o[k] ELSE Undefined

\* JavaScript truthiness of a string-or-undefined value
Truthy(v) == v # Undefined /\ v # ""

\* a || b
OrElse(a, b) == IF Truthy(a) THEN a ELSE b

\* the object literal {k1: v1, ...}: keys whose value is undefined are not
\* observable in the result
Literal(o) == [k \in {x \in DOMAIN o : o[x] # Undefined} |-> o[k]]

\* sample points of Math.random() * 1000, in whole milliseconds
Jitters == { (i * (JitterRangeMs - 1)) \div JitterSteps : i \in 0..JitterSteps }

\* ------------------------------------------------------------------------
\* callWithRetry: the decisions of the catch block
\* ------------------------------------------------------------------------

\* a wrapper that retries whatever the error is
isRetryableAlways(m, error) == TRUE

\* geminiService.ts: errorMsg.includes("503") || includes("429") ||
\* includes("overloaded") || includes("fetch");
\* aiService.ts: errorMsg.includes("503") || errorMsg.includes("429")
isRetryable(m, error) ==
  IF m = "geminiService"
    THEN error.msgHas \cap {"503", "429", "overloaded", "fetch"} # {}
    ELSE error.msgHas \cap {"503", "429"} # {}

\* a catch block that also waits after the last permitted attempt
RetryGuardNoCeiling(m, error, att, maxR) == isRetryable(m, error)

\* the condition under which the catch block waits and continues
RetryGuard(m, error, att, maxR) ==
  isRetryable(m, error) /\ att < maxR - 1

\* a loop that runs one attempt too many
LoopGuardInclusive(att, maxR) == att <= maxR

\* the loop condition: attempt < maxRetries
LoopGuard(att, maxR) == att < maxR

\* a jitter of up to two seconds
DelayWideJitter(m, att, jitter) ==
  IF m = "geminiService"
    THEN (2 ^ att) * BaseDelayMs + 2 * jitter
    ELSE (2 ^ att) * BaseDelayMs

\* a backoff whose exponent starts at 2
DelayLate(m, att, jitter) ==
  IF m = "geminiService"
    THEN (2 ^ (att + 2)) * BaseDelayMs + jitter
    ELSE (2 ^ (att + 2)) * BaseDelayMs

\* a backoff that does not grow with the attempt number
DelayFlat(m, att, jitter) ==
  IF m = "geminiService" THEN BaseDelayMs + jitter ELSE BaseDelayMs

\* geminiService.ts: Math.pow(2, attempt) * 1000 + Math.random() * 1000;
\* aiService.ts: Math.pow(2, attempt) * 1000
Delay(m, att, jitter) ==
  IF m = "geminiService"
    THEN (2 ^ att) * BaseDelayMs + jitter
    ELSE (2 ^ att) * BaseDelayMs

\* the values Math.random() * 1000 is drawn from where the module uses it
JitterChoices(m) == IF m = "geminiService" THEN Jitters ELSE {0}

\* ------------------------------------------------------------------------
\* The clients: what they make of a resolved or rejected callWithRetry
\* ------------------------------------------------------------------------

\* result.text || "{}"
JsonStr(text) ==
  IF text.type = "undefined" THEN TextObject([k \in {} |-> ""]) ELSE text

\* JSON.parse: the parsed value, or the SyntaxError it throws
JSONparse(text) ==
  CASE text.type = "object" -> [ok |-> TRUE, value |-> Obj(text.obj)]
    [] text.type = "null" -> [ok |-> TRUE, value |-> Null]
    [] OTHER -> [ok |-> FALSE, error |-> SyntaxErr]

\* a catch block that does not classify
GsErrorMessageGeneric(error) == MsgBusy

\* geminiService.ts, the error classification of the catch block
GsErrorMessage(error) ==
  IF error.jsonHas \cap {"503", "overloaded"} # {} THEN MsgCapacity
  ELSE IF "429" \in error.jsonHas THEN MsgRateLimit
  ELSE IF Truthy(error.message) /\ "fetch" \in error.msgHas THEN MsgConnection
  ELSE MsgBusy

\* geminiService.ts, catch (error) { ... return {...} }
GsCatch(error) == GsErrorResult(GsErrorMessage(error))

\* aiService.ts getGeminiWisdom, catch (error) { return {..., error: error.message} }
AsCatch(error) ==
  Obj(Literal([answer |-> "Error", reference |-> "", topic |-> "Error",
               explanation |-> "", error |-> error.message]))

\* a parse step that never keeps the explanation
GsFieldsWithoutExplanation(data) ==
  [k \in Fields |->
     IF k = "explanation" THEN FallbackOf[k]
     ELSE OrElse(Get(data, k), FallbackOf[k])]

\* geminiService.ts: the four fields with their fallbacks
GsFields(data) ==
  [k \in Fields |-> OrElse(Get(data, k), FallbackOf[k])]

\* geminiService.ts: the statements after callWithRetry has resolved
GsOnReturn(text) ==
  LET parsed == JSONparse(JsonStr(text))
  IN  IF ~parsed.ok THEN GsCatch(parsed.error)
      ELSE IF parsed.value = Null THEN GsCatch(TypeErr)
      ELSE Obj(GsFields(parsed.value.fields))

\* aiService.ts getGeminiWisdom: return JSON.parse(result.text || "{}")
AsOnReturn(text) ==
  LET parsed == JSONparse(JsonStr(text))
  IN  IF ~parsed.ok THEN AsCatch(parsed.error) ELSE parsed.value

ClientOnReturn(m, text) ==
  IF m = "geminiService" THEN GsOnReturn(text) ELSE AsOnReturn(text)

ClientCatch(m, error) ==
  IF m = "geminiService" THEN GsCatch(error) ELSE AsCatch(error)

\* a client that never notices the missing credential
apiKeyMissingNever(key) == FALSE

\* if (!apiKey), with apiKey = process.env.API_KEY || ''
apiKeyMissing(key) == ~key

\* the result of the credential check failing
ConfigResult(m) ==
  IF m = "geminiService" THEN GsConfigResult ELSE AsConfigResult

\* ------------------------------------------------------------------------
\* The local client
\* ------------------------------------------------------------------------

\* what the POST to {ollamaHost}/api/chat can come back with
OllamaOutcomes ==
  {[type |-> "rejected"], [type |-> "http_error"], [type |-> "body_invalid"],
   [type |-> "no_message"]}
  \cup { [type |-> "content", text |-> t] : t \in CloudTexts }

\* a catch block that passes the message of the exception on
getOllamaWisdomRawError(out) ==
  LET raw(error) ==
        Obj([answer |-> "Local Service Error", reference |-> "",
             topic |-> "Network", explanation |-> "", error |-> error.message])
  IN  IF out.type \in {"rejected", "http_error"} THEN raw(ErrorFetch)
      ELSE IF out.type = "body_invalid" THEN raw(SyntaxErr)
      ELSE IF out.type = "no_message" THEN raw(TypeErr)
      ELSE LET parsed == JSONparse(out.text)
           IN  IF ~parsed.ok THEN raw(parsed.error)
               ELSE IF parsed.value = Null THEN raw(TypeErr)
               ELSE Obj(Literal([k \in Fields |-> Get(parsed.value.fields, k)]))

\* aiService.ts getOllamaWisdom, from the resolution of fetch on
getOllamaWisdom(out) ==
  IF out.type # "content" THEN OllamaErrorResult
  ELSE LET parsed == JSONparse(out.text)
       IN  IF ~parsed.ok THEN OllamaErrorResult
           ELSE IF parsed.value = Null THEN OllamaErrorResult
           ELSE Obj(Literal([k \in Fields |-> Get(parsed.value.fields, k)]))

\* a dispatcher that treats the cloud provider as the special case
RoutesToOllamaUnlessGemini(p) == p # "gemini"

\* aiService.ts getBibleWisdom: settings.provider === 'ollama'
RoutesToOllama(p) == p = "ollama"

\* ------------------------------------------------------------------------
\* State
\* ------------------------------------------------------------------------

VARIABLES
  svc,         \* the service module the call goes to
  entry,       \* the function called: getBibleWisdom, or callWithRetry itself
  provider,    \* settings.provider
  apiKey,      \* TRUE iff process.env.API_KEY is a non-empty string
  maxRetries,  \* callWithRetry's parameter
  pc,          \* Idle, InFlight, AwaitingRetry, LocalInFlight, Done
  attempt,     \* callWithRetry's loop counter
  lastError,   \* callWithRetry's lastError
  calls,       \* invocations of fn(), the cloud transport
  localCalls,  \* invocations of fetch on the Ollama endpoint
  keyReads,    \* reads of process.env.API_KEY
  waits,       \* the delays of the setTimeout waits taken, in order
  outcomes,    \* what each transport call came back with, in order
  result,      \* what the entry function settled with
  messages,    \* the controller's message history
  input,       \* the controller's input text
  isLoading,   \* the controller's isLoading
  appLastError,\* the controller's lastError
  dispatches,  \* the getBibleWisdom calls of the controller not yet settled
  sendCount,   \* invocations of handleSend
  refused,     \* invocations of handleSend that returned because isLoading
  frames,      \* the local variables of each of several concurrent dispatches
  version,     \* the version argument of the service call
  mounted,     \* TRUE once the effects of the controller's first render ran
  bibleVersion,\* the controller's bibleVersion
  aiSettings,  \* the controller's aiSettings
  savedAnswers,\* the controller's savedAnswers
  storage,     \* localStorage: the values of the keys the controller uses
  now,         \* Date.now() at the latest event of the controller
  delivered,   \* the result and the inputs of the latest settled dispatch
  trip         \* a structured result on its way through encode and decode

\* the variables of one service call
svcVars ==
  <<svc, entry, provider, apiKey, maxRetries, pc, attempt, lastError, calls,
    localCalls, keyReads, waits, outcomes, result>>

\* the variables of the controller
appVars ==
  <<messages, input, isLoading, appLastError, dispatches, sendCount, refused>>

\* the rest of the controller's state, and its storage and clock
ctlVars ==
  <<mounted, bibleVersion, aiSettings, savedAnswers, storage, now, delivered>>

\* the inputs of the checks of single functions
pureVars == <<version, trip>>

vars == <<svcVars, appVars, ctlVars, pureVars, frames>>

\* const BIBLE_VERSIONS: BibleVersion[]
BibleVersions == {"NIV", "KJV", "ESV", "NLT", "NKJV", "NASB"}

\* useState<BibleVersion>('NIV')
DefaultVersion == "NIV"

\* useState<AiSettings>({provider: 'gemini', ollamaHost: ..., ollamaModel: ...})
DefaultSettings ==
  [provider |-> "gemini", ollamaHost |-> "http://localhost:11434",
   ollamaModel |-> "deepseek-r1:8b"]

\* localStorage.getItem of a key that was never set
Absent == [absent |-> TRUE]

\* a localStorage none of the keys of which was ever set
EmptyStorage ==
  [bible_favorites |-> Absent, bible_version |-> Absent,
   bible_ai_settings |-> Absent]

\* no dispatch has settled yet
NothingDelivered == [type |-> "none"]

\* no result is on its way
NoTrip == [stage |-> "none"]

\* useState<Message[]>([{id: 'welcome', role: 'assistant', content: ...}])
WelcomeMessage ==
  [id |-> "welcome", role |-> "assistant",
   content |-> "Welcome. What spiritual wisdom do you seek today?"]

\* useState<string | null>(null)
AppNoError == "<null>"

\* the controller after its first render
AppFresh ==
  /\ messages = << WelcomeMessage >>
  /\ input = ""
  /\ isLoading = FALSE
  /\ appLastError = AppNoError
  /\ dispatches = << >>
  /\ sendCount = 0
  /\ refused = 0
  /\ bibleVersion = DefaultVersion
  /\ aiSettings = DefaultSettings
  /\ savedAnswers = << >>
  /\ now = 0
  /\ delivered = NothingDelivered

\* the dispatches that run side by side
Dispatches == {"d1", "d2"}

\* the locals of a call of getBibleWisdom before it has started; interleaved
\* records that the call took a step while another call was suspended
IdleFrame ==
  [pc |-> "Idle", attempt |-> 0, lastError |-> NoError, calls |-> 0,
   waits |-> << >>, outcomes |-> << >>, result |-> Pending,
   interleaved |-> FALSE]

FramesFresh == frames = [d \in Dispatches |-> IdleFrame]

Fresh ==
  /\ AppFresh
  /\ FramesFresh
  /\ mounted = TRUE
  /\ storage = EmptyStorage
  /\ trip = NoTrip
  /\ pc = "Idle"
  /\ attempt = 0
  /\ lastError = NoError
  /\ calls = 0
  /\ localCalls = 0
  /\ keyReads = 0
  /\ waits = << >>
  /\ outcomes = << >>
  /\ result = Pending

\* a call of the exported getBibleWisdom of either module
Init ==
  /\ svc \in Modules
  /\ entry = "getBibleWisdom"
  /\ provider \in (IF svc = "aiService" THEN Providers ELSE {"gemini"})
  /\ apiKey \in BOOLEAN
  /\ maxRetries = DefaultMaxRetries
  /\ version = DefaultVersion
  /\ Fresh

\* a call of callWithRetry itself with a maxRetries of the caller's choice
InitRetry ==
  /\ svc \in Modules
  /\ entry = "callWithRetry"
  /\ provider = "gemini"
  /\ apiKey = TRUE
  /\ maxRetries \in 0..MaxRetriesBound
  /\ version = DefaultVersion
  /\ Fresh

\* return value / exception of the entry function
OnReturn(text) ==
  IF entry = "callWithRetry" THEN [type |-> "returned", value |-> text]
  ELSE ClientOnReturn(svc, text)

OnThrow(error) ==
  IF entry = "callWithRetry" THEN [type |-> "raised", error |-> error]
  ELSE ClientCatch(svc, error)

\* callWithRetry up to its first await: let lastError; attempt = 0; the
\* loop test; fn()
EnterCallWithRetry(maxR) ==
  /\ maxRetries' = maxR
  /\ attempt' = 0
  /\ lastError' = NoError
  /\ IF LoopGuard(0, maxR)
       THEN /\ calls' = calls + 1
            /\ pc' = "InFlight"
            /\ result' = result
       ELSE /\ calls' = calls
            /\ pc' = "Done"
            /\ result' = OnThrow(NoError)
  /\ UNCHANGED <<waits, outcomes, localCalls>>

\* geminiService.ts getBibleWisdom up to its first await
GeminiServiceGetBibleWisdom ==
  /\ pc = "Idle"
  /\ entry = "getBibleWisdom"
  /\ svc = "geminiService"
  /\ keyReads' = keyReads + 1
  /\ IF apiKeyMissing(apiKey)
       THEN /\ pc' = "Done"
            /\ result' = ConfigResult(svc)
            /\ UNCHANGED <<maxRetries, attempt, lastError, calls, localCalls,
                           waits, outcomes>>
       ELSE EnterCallWithRetry(DefaultMaxRetries)
  /\ UNCHANGED <<svc, entry, provider, apiKey>>
  /\ UNCHANGED <<appVars, ctlVars, pureVars, frames>>

\* aiService.ts getBibleWisdom up to its first await: the dispatcher, then
\* getOllamaWisdom up to fetch or getGeminiWisdom up to fn()
AiServiceGetBibleWisdom ==
  /\ pc = "Idle"
  /\ entry = "getBibleWisdom"
  /\ svc = "aiService"
  /\ IF RoutesToOllama(provider)
       THEN /\ localCalls' = localCalls + 1
            /\ pc' = "LocalInFlight"
            /\ UNCHANGED <<maxRetries, attempt, lastError, calls, keyReads,
                           waits, outcomes, result>>
       ELSE /\ keyReads' = keyReads + 1
            /\ IF apiKeyMissing(apiKey)
                 THEN /\ pc' = "Done"
                      /\ result' = ConfigResult(svc)
                      /\ UNCHANGED <<maxRetries, attempt, lastError, calls,
                                     localCalls, waits, outcomes>>
                 ELSE EnterCallWithRetry(DefaultMaxRetries)
  /\ UNCHANGED <<svc, entry, provider, apiKey>>
  /\ UNCHANGED <<appVars, ctlVars, pureVars, frames>>

\* a direct call of callWithRetry(fn, maxRetries)
CallWithRetryDirect ==
  /\ pc = "Idle"
  /\ entry = "callWithRetry"
  /\ EnterCallWithRetry(maxRetries)
  /\ UNCHANGED <<svc, entry, provider, apiKey, keyReads>>
  /\ UNCHANGED <<appVars, ctlVars, pureVars, frames>>

\* await fn() resolves: callWithRetry returns, the client builds its result
TransportResolves ==
  /\ pc = "InFlight"
  /\ \E text \in (IF entry = "callWithRetry" THEN DirectTexts ELSE CloudTexts) :
       /\ outcomes' = Append(outcomes, [kind |-> "ok", text |-> text])
       /\ result' = OnReturn(text)
  /\ pc' = "Done"
  /\ UNCHANGED <<svc, entry, provider, apiKey, maxRetries, attempt, lastError,
                 calls, localCalls, keyReads, waits>>
  /\ UNCHANGED <<appVars, ctlVars, pureVars, frames>>

\* await fn() rejects: the catch block of callWithRetry
TransportRejects ==
  /\ pc = "InFlight"
  /\ \E error \in TransportErrors, jitter \in JitterChoices(svc) :
       /\ outcomes' = Append(outcomes, [kind |-> "error", error |-> error])
       /\ lastError' = error
       /\ IF RetryGuard(svc, error, attempt, maxRetries)
            THEN /\ waits' = Append(waits, Delay(svc, attempt, jitter))
                 /\ pc' = "AwaitingRetry"
                 /\ result' = result
            ELSE /\ waits' = waits
                 /\ pc' = "Done"
                 /\ result' = OnThrow(error)
  /\ UNCHANGED <<svc, entry, provider, apiKey, maxRetries, attempt, calls,
                 localCalls, keyReads>>
  /\ UNCHANGED <<appVars, ctlVars, pureVars, frames>>

\* the setTimeout promise resolves: continue; attempt++; the loop test; fn()
BackoffElapses ==
  /\ pc = "AwaitingRetry"
  /\ attempt' = attempt + 1
  /\ IF LoopGuard(attempt + 1, maxRetries)
       THEN /\ calls' = calls + 1
            /\ pc' = "InFlight"
            /\ result' = result
       ELSE /\ calls' = calls
            /\ pc' = "Done"
            /\ result' = OnThrow(lastError)
  /\ UNCHANGED <<svc, entry, provider, apiKey, maxRetries, lastError,
                 localCalls, keyReads, waits, outcomes>>
  /\ UNCHANGED <<appVars, ctlVars, pureVars, frames>>

\* a local client that waits and posts again after a failed fetch
OllamaSettlesRetrying ==
  /\ pc = "LocalInFlight"
  /\ \E out \in OllamaOutcomes :
       /\ outcomes' = Append(outcomes, [kind |-> "local", out |-> out])
       /\ IF out.type \in {"rejected", "http_error"} /\ localCalls < DefaultMaxRetries
            THEN /\ waits' = Append(waits, Delay(svc, localCalls - 1, 0))
                 /\ localCalls' = localCalls + 1
                 /\ pc' = "LocalInFlight"
                 /\ result' = result
            ELSE /\ waits' = waits
                 /\ localCalls' = localCalls
                 /\ pc' = "Done"
                 /\ result' = getOllamaWisdom(out)
  /\ UNCHANGED <<svc, entry, provider, apiKey, maxRetries, attempt, lastError,
                 calls, keyReads>>
  /\ UNCHANGED <<appVars, ctlVars, pureVars, frames>>

\* await fetch(...) settles: the rest of getOllamaWisdom
OllamaSettles ==
  /\ pc = "LocalInFlight"
  /\ \E out \in OllamaOutcomes :
       /\ outcomes' = Append(outcomes, [kind |-> "local", out |-> out])
       /\ result' = getOllamaWisdom(out)
  /\ pc' = "Done"
  /\ UNCHANGED <<svc, entry, provider, apiKey, maxRetries, attempt, lastError,
                 calls, localCalls, keyReads, waits>>
  /\ UNCHANGED <<appVars, ctlVars, pureVars, frames>>

Next ==
  \/ GeminiServiceGetBibleWisdom
  \/ AiServiceGetBibleWisdom
  \/ TransportResolves
  \/ TransportRejects
  \/ BackoffElapses
  \/ OllamaSettles

NextRetry ==
  \/ CallWithRetryDirect
  \/ TransportResolves
  \/ TransportRejects
  \/ BackoffElapses

Spec == Init /\ [][Next]_vars

SpecRetry == InitRetry /\ [][NextRetry]_vars

\* ------------------------------------------------------------------------
\* The structured result through JSON.stringify and the parse step of the
\* cloud client
\* ------------------------------------------------------------------------

\* the results sent on the round trip: each content field empty or not,
\* with or without an error
StructuredResults ==
  { Obj([k \in Fields |-> IF k \in full THEN TextOf[k] ELSE ""]
        @@ (IF err THEN [error |-> MsgBusy] ELSE << >>)) :
      full \in SUBSET Fields, err \in BOOLEAN }

\* JSON.stringify of a result: the JSON text of the object, without the
\* keys that hold undefined
JSONstringify(r) == TextObject(Literal(r.fields))

InitCodec ==
  /\ svc \in Modules
  /\ entry = "codec"
  /\ provider = "gemini"
  /\ apiKey = TRUE
  /\ maxRetries = DefaultMaxRetries
  /\ version = DefaultVersion
  /\ AppFresh
  /\ FramesFresh
  /\ mounted = TRUE
  /\ storage = EmptyStorage
  /\ pc = "Idle"
  /\ attempt = 0
  /\ lastError = NoError
  /\ calls = 0
  /\ localCalls = 0
  /\ keyReads = 0
  /\ waits = << >>
  /\ outcomes = << >>
  /\ result = Pending
  /\ \E r \in StructuredResults : trip = [stage |-> "result", r |-> r]

\* JSON.stringify(r), the first or the second time
Encode ==
  /\ entry = "codec"
  /\ \/ /\ trip.stage = "result"
        /\ trip' = [stage |-> "encoded", r |-> trip.r,
                    text |-> JSONstringify(trip.r)]
     \/ /\ trip.stage = "decoded"
        /\ trip' = [stage |-> "encoded again", r |-> trip.r, once |-> trip.once,
                    text |-> JSONstringify(trip.once)]
  /\ UNCHANGED <<svcVars, appVars, ctlVars, version, frames>>

\* the parse step of the client on the encoded text, the first or the
\* second time
Decode ==
  /\ entry = "codec"
  /\ \/ /\ trip.stage = "encoded"
        /\ trip' = [stage |-> "decoded", r |-> trip.r,
                    once |-> ClientOnReturn(svc, trip.text)]
     \/ /\ trip.stage = "encoded again"
        /\ trip' = [stage |-> "decoded again", r |-> trip.r, once |-> trip.once,
                    twice |-> ClientOnReturn(svc, trip.text)]
  /\ UNCHANGED <<svcVars, appVars, ctlVars, version, frames>>

NextCodec ==
  \/ Encode
  \/ Decode

SpecCodec == InitCodec /\ [][NextCodec]_vars

\* a call of getBibleWisdom with any of the translation versions
InitVersioned ==
  /\ svc \in Modules
  /\ entry = "getBibleWisdom"
  /\ provider \in (IF svc = "aiService" THEN Providers ELSE {"gemini"})
  /\ apiKey \in BOOLEAN
  /\ maxRetries = DefaultMaxRetries
  /\ version \in BibleVersions
  /\ Fresh

SpecVersioned == InitVersioned /\ [][Next]_vars

\* ------------------------------------------------------------------------
\* The conversation controller: App.tsx (which calls geminiService.ts and
\* has the retry button) and its variant that calls aiService.ts (which has
\* neither the retryInput parameter nor the button).  The handlers read the
\* state of the latest render: React re-renders after each event and after
\* each settled await before the next event is delivered.
\* ------------------------------------------------------------------------

\* what the user can type into the input
Inputs == {"", "   ", "How do I find peace?", "What is love?"}

\* the entry points under which the controller runs: the conversation alone,
\* the conversation with the selectors of version and settings, and the
\* conversation with the favorites and the storage
ControllerEntries == {"handleSend", "settings", "favorites"}

\* !text.trim()
Blank(text) == text \in {"", "   ", Undefined}

\* the invocations of handleSend followed
SendLimit ==
  CASE entry = "handleSend" -> MaxSends
    [] entry = "settings" -> MaxSettingsSends
    [] OTHER -> MaxFavoriteSends

\* the milliseconds between the previous event and a submit: the user may
\* submit in the millisecond after the previous event or later
SubmitGaps == IF entry = "favorites" THEN {1, 2} ELSE {1}

\* the milliseconds a dispatch takes, from the submit to its settling
RoundTripGaps == {1}

\* what the user types: any of the inputs, and where the favorites are
\* followed one of the two questions
TypedInputs == IF entry = "favorites" THEN {x \in Inputs : ~Blank(x)} ELSE Inputs


\* a handler that does not look at isLoading
SendBlockedIgnoringLoading(text, loading) == Blank(text)

\* if (!textToSend.trim() || isLoading) return
SendBlocked(text, loading) == Blank(text) \/ loading

\* getBibleWisdom(textToSend, bibleVersion[, aiSettings]) up to its first
\* await: its arguments, the client the dispatcher picks and the request
\* that client sends
Dispatch(m, text, ver, settings) ==
  LET local == m = "aiService" /\ RoutesToOllama(settings.provider)
  IN  [text |-> text, version |-> ver, settings |-> settings,
       transport |-> IF local THEN "ollama" ELSE "gemini",
       request |-> IF local
                     THEN [version |-> ver, endpoint |-> settings.ollamaHost,
                           model |-> settings.ollamaModel]
                     ELSE [version |-> ver]]

\* the results a cloud dispatch of the controller is followed with: a full
\* answer, an empty response text, the JSON text null, a 503 on the last
\* attempt, and the missing credential
AppResults(m) ==
  {ClientOnReturn(m, TextObject(FullObject)), ClientOnReturn(m, TextUndefined),
   ClientOnReturn(m, TextNull), ClientCatch(m, ApiError503), ConfigResult(m)}

\* the results a cloud dispatch is followed with where the favorites are
\* followed: a full answer, the JSON text null, and a 503 on the last attempt
SessionResults(m) ==
  {ClientOnReturn(m, TextObject(FullObject)), ClientOnReturn(m, TextNull),
   ClientCatch(m, ApiError503)}

\* the results a dispatch is followed with, by the client it went to
DispatchResults(m, d) ==
  IF d.transport = "ollama"
    THEN {getOllamaWisdom([type |-> "content", text |-> TextObject(FullObject)]),
          getOllamaWisdom([type |-> "rejected"])}
    ELSE IF entry = "favorites" THEN SessionResults(m) ELSE AppResults(m)

\* id: Date.now().toString() of the user message
UserMessage(text, at) ==
  [id |-> ToString(at), role |-> "user", content |-> text]

\* a continuation that reads the version selected when it resumes
TaggedVersionLive(sent, current) == current

\* version: bibleVersion in the continuation of handleSend: the constant of
\* the render handleSend was called in, which is the version it sent
TaggedVersion(sent, current) == sent

\* the assistant message built from a result without error;
\* id: (Date.now() + 1).toString()
AssistantMessage(m, r, ver, at) ==
  [id |-> ToString(at + 1),
   role |-> "assistant",
   content |-> Get(r.fields, "answer"),
   metadata |-> IF m = "geminiService"
                  THEN Literal([k \in {"reference", "topic", "explanation"}
                                  |-> Get(r.fields, k)] @@ [version |-> ver])
                  ELSE Literal(r.fields @@ [version |-> ver])]

\* a session of the controller
InitApp ==
  /\ svc \in Modules
  /\ entry = "handleSend"
  /\ provider = "gemini"
  /\ apiKey = TRUE
  /\ maxRetries = DefaultMaxRetries
  /\ version = DefaultVersion
  /\ Fresh

\* a handleSend that appends the user message on a retry as well
AppendsUserMessageAlways(retryInput) == TRUE

\* if (!retryInput) { setMessages(prev => [...prev, userMessage]); setInput('') }
AppendsUserMessage(retryInput) == ~Truthy(retryInput)

\* handleSend up to its await; the dispatch remembers whether handleSend was
\* called with a retryInput
HandleSend(retryInput) ==
  LET textToSend == OrElse(retryInput, input)
  IN  /\ sendCount < SendLimit
      /\ sendCount' = sendCount + 1
      /\ IF SendBlocked(textToSend, isLoading)
           THEN /\ refused' = (IF ~Blank(textToSend) THEN refused + 1 ELSE refused)
                /\ UNCHANGED <<messages, input, isLoading, appLastError,
                               dispatches, now>>
           ELSE /\ refused' = refused
                /\ appLastError' = AppNoError
                /\ \E gap \in SubmitGaps : now' = now + gap
                /\ IF AppendsUserMessage(retryInput)
                     THEN /\ messages' = Append(messages, UserMessage(textToSend, now'))
                          /\ input' = ""
                     ELSE UNCHANGED <<messages, input>>
                /\ isLoading' = TRUE
                /\ dispatches' = Append(dispatches,
                                   Dispatch(svc, textToSend, bibleVersion, aiSettings)
                                   @@ [retry |-> Truthy(retryInput)])
      /\ UNCHANGED <<mounted, bibleVersion, aiSettings, savedAnswers, storage,
                     delivered>>

\* onChange of the input; App.tsx disables the input while isLoading
TypeInput ==
  /\ entry \in ControllerEntries
  /\ mounted
  /\ svc = "geminiService" => ~isLoading
  /\ \E text \in TypedInputs \ {input} : input' = text
  /\ UNCHANGED <<messages, isLoading, appLastError, dispatches, sendCount, refused>>
  /\ UNCHANGED <<svcVars, ctlVars, pureVars, frames>>

\* onSubmit of the form: handleSend(e)
Submit ==
  /\ entry \in ControllerEntries
  /\ mounted
  /\ HandleSend(Undefined)
  /\ UNCHANGED <<svcVars, pureVars, frames>>

\* onClick of 'Try Connection Again', rendered while lastError is set:
\* handleSend(undefined, messages[messages.length - 1]?.content)
RetryClick ==
  /\ entry \in ControllerEntries
  /\ mounted
  /\ svc = "geminiService"
  /\ appLastError # AppNoError
  /\ HandleSend(messages[Len(messages)].content)
  /\ UNCHANGED <<svcVars, pureVars, frames>>

\* setIsLoading(false) as the last statement of the try block: it is
\* skipped when the result has an error or reading it throws
LoadingAfterSettleInTry(r) == r = Null \/ Truthy(Get(r.fields, "error"))

\* finally { setIsLoading(false) }: isLoading after the rest of handleSend,
\* whichever way the try block was left
LoadingAfterSettle(r) == FALSE

\* the awaited getBibleWisdom settles: the rest of handleSend
DispatchSettles ==
  /\ entry \in ControllerEntries
  /\ mounted
  /\ \E i \in 1..Len(dispatches), gap \in RoundTripGaps :
     \E r \in DispatchResults(svc, dispatches[i]) :
       /\ dispatches' = SubSeq(dispatches, 1, i - 1)
                          \o SubSeq(dispatches, i + 1, Len(dispatches))
       /\ now' = now + gap
       /\ delivered' = [type |-> "settled", result |-> r,
                         text |-> dispatches[i].text,
                         retry |-> dispatches[i].retry,
                         transport |-> dispatches[i].transport,
                         changed |-> (bibleVersion # dispatches[i].version
                                      \/ aiSettings # dispatches[i].settings)]
       /\ IF r = Null
            THEN /\ appLastError' = TypeErr.message
                 /\ messages' = messages
            ELSE IF Truthy(Get(r.fields, "error"))
            THEN /\ appLastError' = r.fields.error
                 /\ messages' = messages
            ELSE /\ appLastError' = appLastError
                 /\ messages' = Append(messages,
                      AssistantMessage(svc, r,
                        TaggedVersion(dispatches[i].version, bibleVersion), now'))
       /\ isLoading' = LoadingAfterSettle(r)
  /\ UNCHANGED <<input, sendCount, refused>>
  /\ UNCHANGED <<mounted, bibleVersion, aiSettings, savedAnswers, storage>>
  /\ UNCHANGED <<svcVars, pureVars, frames>>

NextApp ==
  \/ TypeInput
  \/ Submit
  \/ RetryClick
  \/ DispatchSettles

SpecApp == InitApp /\ [][NextApp]_vars

\* the promise handleSend awaits settles: getBibleWisdom returns after at
\* most maxRetries attempts and their backoff delays
SpecAppFair == SpecApp /\ WF_vars(DispatchSettles)

\* ------------------------------------------------------------------------
\* The selectors of the translation version and of the AI settings
\* ------------------------------------------------------------------------

\* the versions the user picks in the select
VersionChoices == {"NIV", "KJV", "NASB"}

\* what the user can type into the endpoint field of the settings
OllamaHosts == {DefaultSettings.ollamaHost, "http://10.0.0.2:11434"}

\* what the user can type into the model field of the settings
OllamaModels == {DefaultSettings.ollamaModel, "llama3"}

\* the item localStorage.setItem(key, text) stores
StoredText(text) == [text |-> text]

\* the item localStorage.setItem(key, JSON.stringify(settings)) stores
StoredSettings(settings) == [json |-> settings]

\* useEffect(() => localStorage.setItem(key, value), [state]): the value of
\* the key after the effect of a render in which the state has changed
Persisted(store, key, value) == [store EXCEPT ![key] = value]

\* onChange of the translation select: setBibleVersion(e.target.value),
\* then the persist effect of the next render
SelectVersion ==
  /\ entry = "settings"
  /\ mounted
  /\ \E v \in VersionChoices \ {bibleVersion} :
       /\ bibleVersion' = v
       /\ storage' = Persisted(storage, "bible_version", StoredText(v))
  /\ UNCHANGED <<messages, input, isLoading, appLastError, dispatches,
                 sendCount, refused>>
  /\ UNCHANGED <<mounted, aiSettings, savedAnswers, now, delivered>>
  /\ UNCHANGED <<svcVars, pureVars, frames>>

\* the settings modal of the controller of aiService.ts:
\* setAiSettings({...aiSettings, provider | ollamaHost | ollamaModel}), then
\* the persist effect; the two fields are rendered for provider ollama
ChangeSettings ==
  /\ entry = "settings"
  /\ mounted
  /\ svc = "aiService"
  /\ \E next \in
         { [aiSettings EXCEPT !.provider = p] : p \in {"gemini", "ollama"} }
         \cup (IF aiSettings.provider = "ollama"
                THEN { [aiSettings EXCEPT !.ollamaHost = h] : h \in OllamaHosts }
                     \cup { [aiSettings EXCEPT !.ollamaModel = o] : o \in OllamaModels }
                ELSE {}) :
       /\ next # aiSettings
       /\ aiSettings' = next
       /\ storage' = Persisted(storage, "bible_ai_settings", StoredSettings(next))
  /\ UNCHANGED <<messages, input, isLoading, appLastError, dispatches,
                 sendCount, refused>>
  /\ UNCHANGED <<mounted, bibleVersion, savedAnswers, now, delivered>>
  /\ UNCHANGED <<svcVars, pureVars, frames>>

\* a session in which the user also changes the version and the settings
InitSettings ==
  /\ svc \in Modules
  /\ entry = "settings"
  /\ provider = "gemini"
  /\ apiKey = TRUE
  /\ maxRetries = DefaultMaxRetries
  /\ version = DefaultVersion
  /\ Fresh

NextSettings ==
  \/ TypeInput
  \/ Submit
  \/ DispatchSettles
  \/ SelectVersion
  \/ ChangeSettings

SpecSettings == InitSettings /\ [][NextSettings]_vars

\* ------------------------------------------------------------------------
\* The favorites, the browser storage and the page reload
\* ------------------------------------------------------------------------

\* what the 'bible_version' key may hold when the page is opened: nothing,
\* a version an earlier session stored, or any other string
StoredVersions == {Absent, StoredText("KJV"), StoredText("Latin Vulgate")}

\* JSON.stringify(savedAnswers): the text of the array; a Date becomes its
\* ISO string (the entries hold no key with undefined, see NewFavorite)
StoredFavorites(saved) ==
  [json |-> [i \in 1..Len(saved) |->
               [saved[i] EXCEPT !.timestamp = [iso |-> @.date]]]]

\* JSON.parse(text).map(item => ({...item, timestamp: new Date(item.timestamp)}))
Revived(stored) ==
  [i \in 1..Len(stored.json) |->
     [stored.json[i] EXCEPT !.timestamp = [date |-> @.iso]]]

\* a load effect declared after the persist effects reads what they wrote
LoadSourceAfterPersist(before, afterPersist) == afterPersist

\* the load effect is declared first: it reads the storage as the page
\* found it, before the persist effects of the first render write to it
LoadSource(before, afterPersist) == before

\* the stored version the load effect accepts: App.tsx takes a member of
\* BIBLE_VERSIONS only, part_001 takes any non-empty string
AcceptsStoredVersion(m, v) ==
  /\ v # Absent
  /\ Truthy(v.text)
  /\ m = "geminiService" => v.text \in BibleVersions

\* the mount of App: the first render with the initial state, its effects
\* in the order of declaration (load, then persist of the initial state),
\* the render with the restored state and its persist effects
Mounting(m, store) ==
  LET firstPersist ==
        [store EXCEPT !.bible_favorites = StoredFavorites(<< >>),
                      !.bible_version = StoredText(DefaultVersion),
                      !.bible_ai_settings =
                         IF m = "aiService" THEN StoredSettings(DefaultSettings)
                         ELSE @]
      read == LoadSource(store, firstPersist)
      favorites == IF read.bible_favorites = Absent
                     THEN << >>
                     ELSE Revived(read.bible_favorites)
      ver == IF AcceptsStoredVersion(m, read.bible_version)
               THEN read.bible_version.text
               ELSE DefaultVersion
      settings == IF m = "aiService" /\ read.bible_ai_settings # Absent
                    THEN read.bible_ai_settings.json
                    ELSE DefaultSettings
  IN  [savedAnswers |-> favorites,
       bibleVersion |-> ver,
       aiSettings |-> settings,
       storage |-> [firstPersist EXCEPT
                      !.bible_favorites = StoredFavorites(favorites),
                      !.bible_version = StoredText(ver),
                      !.bible_ai_settings =
                         IF m = "aiService" THEN StoredSettings(settings)
                         ELSE @]]

\* the page is opened
Mount ==
  /\ entry = "favorites"
  /\ ~mounted
  /\ mounted' = TRUE
  /\ LET after == Mounting(svc, storage)
     IN  /\ savedAnswers' = after.savedAnswers
         /\ bibleVersion' = after.bibleVersion
         /\ aiSettings' = after.aiSettings
         /\ storage' = after.storage
  /\ UNCHANGED <<appVars, now, delivered>>
  /\ UNCHANGED <<svcVars, pureVars, frames>>

\* the page is reloaded: the state of the component is gone with the
\* dispatch in flight, the storage stays, and App mounts again
Reload ==
  /\ entry = "favorites"
  /\ mounted
  /\ messages' = << WelcomeMessage >>
  /\ input' = ""
  /\ isLoading' = FALSE
  /\ appLastError' = AppNoError
  /\ dispatches' = << >>
  /\ delivered' = [type |-> "reload"]
  /\ LET after == Mounting(svc, storage)
     IN  /\ savedAnswers' = after.savedAnswers
         /\ bibleVersion' = after.bibleVersion
         /\ aiSettings' = after.aiSettings
         /\ storage' = after.storage
  /\ UNCHANGED <<sendCount, refused, mounted, now>>
  /\ UNCHANGED <<svcVars, pureVars, frames>>

\* a handler that never finds the message among the favorites
FindIndexNever(saved, id) == 0

\* savedAnswers.findIndex(s => s.id === id), counted from 1; 0 for -1
FindIndex(saved, id) ==
  IF \E j \in 1..Len(saved) : saved[j].id = id
    THEN CHOOSE j \in 1..Len(saved) :
           /\ saved[j].id = id
           /\ \A k \in 1..(j - 1) : saved[k].id # id
    ELSE 0

\* prev.filter((_, i) => i !== index)
WithoutIndex(saved, index) ==
  SubSeq(saved, 1, index - 1) \o SubSeq(saved, index + 1, Len(saved))

\* prev.filter(s => s.id !== id)
WithoutId(saved, id) == SelectSeq(saved, LAMBDA s : s.id # id)

\* a search that returns the last message followed by one with that id
FindUserMsgLast(m, msgs, id) ==
  LET hits == { k \in 1..(Len(msgs) - 1) :
                  /\ msgs[k + 1].id = id
                  /\ m = "geminiService" => msgs[k].role = "user" }
  IN  IF hits = {}
        THEN 0
        ELSE CHOOSE k \in hits : \A h \in hits : k >= h

\* messages.find((m, i) => messages[i+1]?.id === id [&& m.role === 'user']):
\* the index of the first message followed by one with that id, 0 when
\* there is none; App.tsx also asks for a user message
FindUserMsg(m, msgs, id) ==
  LET hits == { k \in 1..(Len(msgs) - 1) :
                  /\ msgs[k + 1].id = id
                  /\ m = "geminiService" => msgs[k].role = "user" }
  IN  IF hits = {}
        THEN 0
        ELSE CHOOSE k \in hits : \A h \in hits : k <= h

\* the text stored when no user message is found
QuestionPlaceholder(m) ==
  IF m = "geminiService" THEN "Spiritual Question" ELSE "Wisdom"

\* the favorite toggleFavorite builds from an assistant message; the keys
\* that hold undefined are left out, as JSON.stringify leaves them out
NewFavorite(m, msgs, message, current, at) ==
  LET userMsg == FindUserMsg(m, msgs, message.id)
      question == IF userMsg = 0
                    THEN QuestionPlaceholder(m)
                    ELSE OrElse(msgs[userMsg].content, QuestionPlaceholder(m))
      tail == [version |-> OrElse(Get(message.metadata, "version"), current)]
      stamp == [timestamp |-> [date |-> at]]
      head == [id |-> message.id, question |-> question,
               answer |-> message.content]
  IN  IF m = "geminiService"
        THEN stamp @@ Literal(tail @@ head
                              @@ [k \in {"reference", "topic", "explanation"} |->
                                    Get(message.metadata, k)])
        ELSE stamp @@ Literal(tail @@ message.metadata @@ head)

\* the favorites after toggleFavorite(message)
Toggled(m, saved, msgs, message, current, at) ==
  LET existingIndex == FindIndex(saved, message.id)
  IN  IF existingIndex > 0
        THEN IF m = "geminiService"
               THEN WithoutIndex(saved, existingIndex)
               ELSE WithoutId(saved, message.id)
        ELSE << NewFavorite(m, msgs, message, current, at) >> \o saved

\* onSave of a message: the heart is rendered on the assistant messages that
\* carry metadata; toggleFavorite(message), then the persist effect
ToggleFavorite ==
  /\ entry = "favorites"
  /\ mounted
  /\ \E i \in 1..Len(messages) :
       /\ messages[i].role = "assistant"
       /\ "metadata" \in DOMAIN messages[i]
       /\ savedAnswers' = Toggled(svc, savedAnswers, messages, messages[i],
                                  bibleVersion, now)
       /\ delivered' = [type |-> "toggle", id |-> messages[i].id]
  /\ storage' = Persisted(storage, "bible_favorites", StoredFavorites(savedAnswers'))
  /\ UNCHANGED <<appVars, mounted, bibleVersion, aiSettings, now>>
  /\ UNCHANGED <<svcVars, pureVars, frames>>

\* the remove button of an entry in the favorites panel:
\* removeFavorite(item.id), then the persist effect
RemoveFavorite ==
  /\ entry = "favorites"
  /\ mounted
  /\ \E j \in 1..Len(savedAnswers) :
       /\ savedAnswers' = WithoutId(savedAnswers, savedAnswers[j].id)
       /\ delivered' = [type |-> "remove", id |-> savedAnswers[j].id]
  /\ storage' = Persisted(storage, "bible_favorites", StoredFavorites(savedAnswers'))
  /\ UNCHANGED <<appVars, mounted, bibleVersion, aiSettings, now>>
  /\ UNCHANGED <<svcVars, pureVars, frames>>

\* the page is opened on a storage an earlier session or anyone else wrote
InitFavorites ==
  /\ svc \in Modules
  /\ entry = "favorites"
  /\ provider = "gemini"
  /\ apiKey = TRUE
  /\ maxRetries = DefaultMaxRetries
  /\ version = DefaultVersion
  /\ AppFresh
  /\ FramesFresh
  /\ mounted = FALSE
  /\ \E v \in StoredVersions :
       storage = [EmptyStorage EXCEPT !.bible_version = v]
  /\ trip = NoTrip
  /\ pc = "Idle"
  /\ attempt = 0
  /\ lastError = NoError
  /\ calls = 0
  /\ localCalls = 0
  /\ keyReads = 0
  /\ waits = << >>
  /\ outcomes = << >>
  /\ result = Pending

NextFavorites ==
  \/ Mount
  \/ Reload
  \/ TypeInput
  \/ Submit
  \/ RetryClick
  \/ DispatchSettles
  \/ ToggleFavorite
  \/ RemoveFavorite

SpecFavorites == InitFavorites /\ [][NextFavorites]_vars

\* ------------------------------------------------------------------------
\* Concurrent dispatches: several calls of getBibleWisdom of one module,
\* each suspended at its own await and resumed in any order.  attempt and
\* lastError are declared inside callWithRetry (let lastError; for (let
\* attempt ...)), so every call has its own; the modules declare no mutable
\* variable outside their functions.
\* ------------------------------------------------------------------------

\* the rejections of the transport in the concurrent runs: one every module
\* retries, one only geminiService.ts retries, one neither retries
PairErrors == {ApiError503, ErrorFetch, ApiError400}

Suspended(f) == f.pc \in {"InFlight", "AwaitingRetry"}

\* the frame of d after a step, marked when another call is suspended
Stepped(d, f) ==
  [f EXCEPT !.interleaved = @ \/ \E e \in Dispatches \ {d} : Suspended(frames[e])]

\* an attempt counter declared at module level: one counter for all calls
IncrementAttemptShared(fs, d) ==
  [e \in Dispatches |-> [fs[e] EXCEPT !.attempt = @ + 1]]

\* attempt++ of the for loop of the call d
IncrementAttempt(fs, d) == [fs EXCEPT ![d].attempt = @ + 1]

InitPair ==
  /\ svc \in Modules
  /\ entry = "concurrent"
  /\ provider = "gemini"
  /\ apiKey \in BOOLEAN
  /\ maxRetries = DefaultMaxRetries
  /\ version = DefaultVersion
  /\ Fresh

\* getBibleWisdom of the call d up to its first await
PairEnter(d) ==
  /\ entry = "concurrent"
  /\ frames[d].pc = "Idle"
  /\ LET f == Stepped(d, frames[d])
     IN  frames' = [frames EXCEPT ![d] =
           IF apiKeyMissing(apiKey)
             THEN [f EXCEPT !.pc = "Done", !.result = ConfigResult(svc)]
           ELSE IF LoopGuard(0, maxRetries)
             THEN [f EXCEPT !.pc = "InFlight", !.calls = @ + 1,
                            !.attempt = 0, !.lastError = NoError]
           ELSE [f EXCEPT !.pc = "Done", !.result = ClientCatch(svc, NoError)]]
  /\ UNCHANGED <<svcVars, appVars, ctlVars, pureVars>>

\* await fn() of the call d resolves
PairResolves(d) ==
  /\ entry = "concurrent"
  /\ frames[d].pc = "InFlight"
  /\ \E text \in DirectTexts :
       LET f == Stepped(d, frames[d])
       IN  frames' = [frames EXCEPT ![d] =
             [f EXCEPT !.outcomes = Append(@, [kind |-> "ok", text |-> text]),
                       !.result = ClientOnReturn(svc, text),
                       !.pc = "Done"]]
  /\ UNCHANGED <<svcVars, appVars, ctlVars, pureVars>>

\* await fn() of the call d rejects: the catch block of callWithRetry
PairRejects(d) ==
  /\ entry = "concurrent"
  /\ frames[d].pc = "InFlight"
  /\ \E error \in PairErrors, jitter \in JitterChoices(svc) :
       LET f == [Stepped(d, frames[d]) EXCEPT
                   !.outcomes = Append(@, [kind |-> "error", error |-> error]),
                   !.lastError = error]
       IN  frames' = [frames EXCEPT ![d] =
             IF RetryGuard(svc, error, f.attempt, maxRetries)
               THEN [f EXCEPT !.waits = Append(@, Delay(svc, f.attempt, jitter)),
                              !.pc = "AwaitingRetry"]
               ELSE [f EXCEPT !.pc = "Done", !.result = ClientCatch(svc, error)]]
  /\ UNCHANGED <<svcVars, appVars, ctlVars, pureVars>>

\* the backoff of the call d is over: attempt++, the loop test, fn()
PairBackoffElapses(d) ==
  /\ entry = "concurrent"
  /\ frames[d].pc = "AwaitingRetry"
  /\ LET fs == IncrementAttempt(frames, d)
         f == Stepped(d, fs[d])
     IN  frames' = [fs EXCEPT ![d] =
           IF LoopGuard(f.attempt, maxRetries)
             THEN [f EXCEPT !.calls = @ + 1, !.pc = "InFlight"]
             ELSE [f EXCEPT !.pc = "Done",
                            !.result = ClientCatch(svc, f.lastError)]]
  /\ UNCHANGED <<svcVars, appVars, ctlVars, pureVars>>

NextPair ==
  \/ \E d \in Dispatches : PairEnter(d)
  \/ \E d \in Dispatches : PairResolves(d)
  \/ \E d \in Dispatches : PairRejects(d)
  \/ \E d \in Dispatches : PairBackoffElapses(d)

SpecPair == InitPair /\ [][NextPair]_vars

\* ------------------------------------------------------------------------
\* Vocabulary of the properties
\* ------------------------------------------------------------------------

\* the entry function has settled
Settled == pc = "Done"

\* a call of getBibleWisdom has resolved
Resolved == entry = "getBibleWisdom" /\ Settled

\* the call went (or goes) to the cloud client
CloudPath == svc = "geminiService" \/ provider # "ollama"

\* the normalized result shape: an object with the four content fields and
\* at most the error field besides
IsNormalized(r) ==
  /\ r.type = "object"
  /\ Fields \subseteq DOMAIN r.fields
  /\ DOMAIN r.fields \subseteq Fields \cup {"error"}

ErrorPopulated(r) == r.type = "object" /\ Truthy(Get(r.fields, "error"))

ContentPopulated(r) ==
  r.type = "object" /\ \A k \in Fields : Truthy(Get(r.fields, k))

\* the transient class of the retry policy: the error's message names 503,
\* 429, an overloaded condition or a fetch failure
TransientClass(error) == error.msgHas \cap Tokens # {}

FailedAt(i) == i \in 1..Len(outcomes) /\ outcomes[i].kind = "error"

SucceededAt(i) == i \in 1..Len(outcomes) /\ outcomes[i].kind = "ok"

\* ------------------------------------------------------------------------
\* C1
\* ------------------------------------------------------------------------

\* C1: whatever the provider and the outcome of the transport, a call of
\* getBibleWisdom that has resolved has resolved to an object of the
\* normalized result shape (the model has no state in which the call has
\* rejected: every await of the clients is inside their try block).
C1_ResolvesToNormalizedShape == Resolved => IsNormalized(result)

\* ------------------------------------------------------------------------
\* C2
\* ------------------------------------------------------------------------

\* C2: callWithRetry calls the operation at most maxRetries times, once per
\* attempt (every call made has come back, except the one in flight), and a
\* successful attempt is the last one: the wrapper has then returned the
\* value of that attempt.
C2_AtMostMaxRetriesCalls ==
  /\ calls <= maxRetries
  /\ calls = Len(outcomes) + (IF pc = "InFlight" THEN 1 ELSE 0)
  /\ pc \in {"InFlight", "AwaitingRetry"} => calls = attempt + 1
  /\ \A i \in 1..Len(outcomes) :
       SucceededAt(i) =>
         /\ i = Len(outcomes)
         /\ Settled
         /\ calls = i
         /\ result = [type |-> "returned", value |-> outcomes[i].text]
         /\ \A j \in 1..(i - 1) : FailedAt(j)

\* the last permitted attempt of a caller-chosen maxRetries succeeded
C2_Witness ==
  /\ entry = "callWithRetry"
  /\ maxRetries = MaxRetriesBound
  /\ calls = maxRetries
  /\ Settled
  /\ SucceededAt(maxRetries)

\* ------------------------------------------------------------------------
\* C3
\* ------------------------------------------------------------------------

\* C3: an attempt that fails with an error outside the transient class is
\* the last attempt: no call and no backoff wait follows it and the wrapper
\* has raised that very error; when it is the first attempt, exactly one
\* call was made and no wait was taken at all.
C3_NonTransientNotRetried ==
  \A i \in 1..Len(outcomes) :
    (FailedAt(i) /\ ~TransientClass(outcomes[i].error)) =>
      /\ i = Len(outcomes)
      /\ Settled
      /\ calls = i
      /\ Len(waits) = i - 1
      /\ result = [type |-> "raised", error |-> outcomes[i].error]

\* a malformed-credential error on attempt 1
C3_Witness ==
  /\ entry = "callWithRetry"
  /\ maxRetries = DefaultMaxRetries
  /\ outcomes = << [kind |-> "error", error |-> ApiError400] >>
  /\ Settled
  /\ calls = 1
  /\ waits = << >>

\* ------------------------------------------------------------------------
\* C4
\* ------------------------------------------------------------------------

Is429(error) == error \in {ApiError429, Error429}

\* the transport failed with 429 twice and then answered
Fails429TwiceThenSucceeds ==
  /\ entry = "getBibleWisdom"
  /\ Len(outcomes) = 3
  /\ FailedAt(1) /\ Is429(outcomes[1].error)
  /\ FailedAt(2) /\ Is429(outcomes[2].error)
  /\ SucceededAt(3)

\* C4: with 429 on attempts 1 and 2 and an answer on attempt 3 the cloud
\* client has made exactly three transport calls and taken exactly two
\* backoff waits, the second strictly longer than the first, and when the
\* answer is a JSON object it has resolved to that answer: no error field,
\* and every non-empty field of the answer is in the result.
C4_TwoBackoffsThenSuccess ==
  Fails429TwiceThenSucceeds =>
    /\ Settled
    /\ calls = 3
    /\ Len(waits) = 2
    /\ waits[2] > waits[1]
    /\ outcomes[3].text.type = "object" =>
         /\ result.type = "object"
         /\ "error" \notin DOMAIN result.fields
         /\ \A k \in DOMAIN outcomes[3].text.obj :
              Truthy(outcomes[3].text.obj[k]) =>
                Get(result.fields, k) = outcomes[3].text.obj[k]

\* the case with the largest first and the smallest second delay
C4_Witness ==
  /\ Fails429TwiceThenSucceeds
  /\ svc = "geminiService"
  /\ outcomes[3].text = TextObject(FullObject)
  /\ waits = << BaseDelayMs + (JitterRangeMs - 1), 2 * BaseDelayMs >>
  /\ result = Obj(FullObject)

\* ------------------------------------------------------------------------
\* C5
\* ------------------------------------------------------------------------

\* a rate-limit or overload signal
RateLimitOrOverload(error) ==
  error \in {ApiError503, ApiError429, Error429, ErrorOverloaded}

\* the cloud transport failed with such a signal on all three attempts
RetriesExhausted ==
  /\ entry = "getBibleWisdom"
  /\ CloudPath
  /\ Settled
  /\ Len(outcomes) = DefaultMaxRetries
  /\ \A i \in 1..Len(outcomes) : FailedAt(i) /\ RateLimitOrOverload(outcomes[i].error)

\* the messages that tell the user the service is at capacity
CapacityMessages == {MsgCapacity, MsgBusy}

C6_ContentXorError ==
  Resolved => (ContentPopulated(result) /\ ~ErrorPopulated(result))
              \/ (ErrorPopulated(result) /\ ~ContentPopulated(result))

\* ------------------------------------------------------------------------
\* C7
\* ------------------------------------------------------------------------

\* the provider answered with a JSON object
ProviderObject ==
  IF Len(outcomes) = 0 THEN [type |-> "none"]
  ELSE LET last == outcomes[Len(outcomes)]
       IN  IF last.kind = "ok" /\ last.text.type = "object" THEN last.text
           ELSE IF last.kind = "local" /\ last.out.type = "content"
                   /\ last.out.text.type = "object" THEN last.out.text
           ELSE [type |-> "none"]

\* C7: when the provider's object lacks some of the four fields, the result
\* is the object with the documented fallback in the place of each missing
\* field, the supplied fields unchanged, and no error field.
C7_FallbackForMissingFields ==
  (Resolved /\ ProviderObject.type = "object"
     /\ DOMAIN ProviderObject.obj # Fields) =>
    result = Obj([k \in Fields |->
                    IF k \in DOMAIN ProviderObject.obj
                      THEN ProviderObject.obj[k] ELSE FallbackOf[k]])

\* ------------------------------------------------------------------------
\* C8
\* ------------------------------------------------------------------------

\* C8: in aiService.ts a call with provider ollama never reads the
\* credential, never calls the cloud transport and posts to the local
\* endpoint; a call with any other provider never posts to the local
\* endpoint and enters the cloud client.
C8_RoutesOnProviderOnly ==
  (entry = "getBibleWisdom" /\ svc = "aiService") =>
    /\ provider = "ollama" =>
         /\ calls = 0
         /\ keyReads = 0
         /\ pc \notin {"InFlight", "AwaitingRetry"}
         /\ pc # "Idle" => localCalls = 1
    /\ provider # "ollama" =>
         /\ localCalls = 0
         /\ pc # "LocalInFlight"
         /\ pc # "Idle" => keyReads = 1

\* a local dispatch has resolved without touching the cloud side
C8_Witness ==
  /\ svc = "aiService"
  /\ provider = "ollama"
  /\ apiKey
  /\ Settled
  /\ localCalls = 1
  /\ calls = 0
  /\ ContentPopulated(result)

\* ------------------------------------------------------------------------
\* C9
\* ------------------------------------------------------------------------

ConfigMessages == {MsgKeyMissingGs, MsgKeyMissingAs}

\* C9: without a credential the cloud client is settled as soon as it has
\* been called, with no transport call, no backoff wait and a result whose
\* error field holds the configuration message.
C9_MissingCredentialIsConfigError ==
  (entry = "getBibleWisdom" /\ CloudPath /\ ~apiKey /\ pc # "Idle") =>
    /\ Settled
    /\ calls = 0
    /\ waits = << >>
    /\ outcomes = << >>
    /\ IsNormalized(result)
    /\ result.fields.error \in ConfigMessages

\* the cloud client of aiService.ts called without a credential
C9_Witness ==
  /\ svc = "aiService"
  /\ provider = "gemini"
  /\ ~apiKey
  /\ Settled
  /\ keyReads = 1
  /\ result.fields.error = MsgKeyMissingAs

\* ------------------------------------------------------------------------
\* C10
\* ------------------------------------------------------------------------

\* C10: a dispatch with provider ollama posts exactly once and never waits,
\* whatever the post comes back with; only a cloud dispatch is ever in a
\* backoff wait.
C10_LocalNeverBacksOff ==
  /\ (entry = "getBibleWisdom" /\ svc = "aiService" /\ provider = "ollama") =>
       /\ waits = << >>
       /\ localCalls <= 1
       /\ Settled => (localCalls = 1 /\ Len(outcomes) = 1)
  /\ (pc = "AwaitingRetry" \/ waits # << >>) => CloudPath

\* a local dispatch whose post failed at the network level has resolved
C10_Witness ==
  /\ svc = "aiService"
  /\ provider = "ollama"
  /\ Settled
  /\ outcomes = << [kind |-> "local", out |-> [type |-> "rejected"]] >>
  /\ result = OllamaErrorResult
  /\ localCalls = 1

\* ------------------------------------------------------------------------
\* C11
\* ------------------------------------------------------------------------

\* every awaited promise settles: transport calls and backoff timers
\* complete, and the synchronous code between two awaits runs
SpecFair == Spec /\ WF_vars(Next)

\* the terminal states of the per-request state machine
Succeeded == Resolved /\ ContentPopulated(result) /\ ~ErrorPopulated(result)

FailedTerminal == Resolved /\ ErrorPopulated(result)

\* C11: provided every transport call and every backoff timer completes, a
\* dispatch eventually is in exactly one of the terminal states Succeeded
\* (content populated) and FailedTerminal (error populated), and from its
\* resolution on no transport call is made and no backoff wait is taken.
C11_ReachesOneTerminalState ==
  /\ <>((Succeeded /\ ~FailedTerminal) \/ (FailedTerminal /\ ~Succeeded))
  /\ [][Settled => (calls' = calls /\ localCalls' = localCalls /\ waits' = waits)]_vars

\* ------------------------------------------------------------------------
\* C12
\* ------------------------------------------------------------------------

\* C12: a failed attempt is followed by a backoff wait exactly when its
\* error is of one of the four transient classes (503, 429, overloaded,
\* fetch) and attempts remain, and once that wait is over the operation has
\* been called again; in the wrapper of either module.
C12_RetriesExactlyTheFourClasses ==
  \A i \in 1..Len(outcomes) :
    FailedAt(i) =>
      /\ (TransientClass(outcomes[i].error) /\ i < maxRetries) <=> Len(waits) >= i
      /\ (Len(waits) >= i /\ ~(pc = "AwaitingRetry" /\ i = Len(outcomes))) =>
           calls >= i + 1

\* ------------------------------------------------------------------------
\* C13
\* ------------------------------------------------------------------------

\* the class of an error, by what its text names
ErrorClass(error) ==
  LET has == error.msgHas \cup error.jsonHas
  IN  IF has \cap {"503", "overloaded"} # {} THEN "capacity"
      ELSE IF "429" \in has THEN "rate-limited"
      ELSE IF "fetch" \in has THEN "network"
      ELSE "unknown"

\* the user-facing message of each class
ClassMessage ==
  [capacity |-> MsgCapacity, rate_limited |-> MsgRateLimit,
   network |-> MsgConnection, unknown |-> MsgBusy]

MessageOfClass(c) ==
  IF c = "rate-limited" THEN ClassMessage.rate_limited ELSE ClassMessage[c]

\* the cloud client has resolved after its last transport call failed
CloudFailedTerminally ==
  /\ Resolved
  /\ CloudPath
  /\ Len(outcomes) > 0
  /\ FailedAt(Len(outcomes))

\* C13: after a terminal failure the error field of the cloud client's
\* result is the user-facing message of the class of the final error, and
\* is not the raw message of that error.
C13_MessageByErrorClass ==
  CloudFailedTerminally =>
    LET final == outcomes[Len(outcomes)].error
    IN  /\ ErrorPopulated(result)
        /\ result.fields.error = MessageOfClass(ErrorClass(final))
        /\ result.fields.error # final.message

\* ------------------------------------------------------------------------
\* C14
\* ------------------------------------------------------------------------

\* the post failed: fetch rejected, the status was not a success, the body
\* was not JSON, message was missing, or message.content was missing, not
\* JSON, or the JSON null
LocalFailure(out) ==
  \/ out.type \in {"rejected", "http_error", "body_invalid", "no_message"}
  \/ out.type = "content" /\ out.text.type \in {"undefined", "invalid", "null"}

LocalResolved ==
  /\ Resolved
  /\ svc = "aiService"
  /\ provider = "ollama"
  /\ Len(outcomes) = 1

\* C14: every failure of the local client resolves to a result of the
\* normalized shape whose error field is the local connectivity message,
\* not the message of an exception, and none of whose fields holds text of
\* the response.
C14_LocalFailureIsStructured ==
  (LocalResolved /\ LocalFailure(outcomes[1].out)) =>
    /\ IsNormalized(result)
    /\ result.fields.error = MsgOllama
    /\ \A k \in Fields : result.fields[k] \notin { TextOf[f] : f \in Fields }

\* message.content was not JSON
C14_Witness ==
  /\ LocalResolved
  /\ outcomes[1].out = [type |-> "content", text |-> TextInvalid]
  /\ result.fields.error = MsgOllama
  /\ calls = 0

\* ------------------------------------------------------------------------
\* C15
\* ------------------------------------------------------------------------

\* callWithRetry has given up after at least one attempt
GaveUp ==
  /\ entry = "callWithRetry"
  /\ Settled
  /\ result.type = "raised"
  /\ Len(outcomes) > 0

\* C15: when callWithRetry gives up, the error it raises is the error of
\* the most recent attempt, and no backoff wait was taken after that
\* attempt: there is one wait fewer than failed attempts.
C15_RaisesLastErrorAtOnce ==
  GaveUp =>
    /\ FailedAt(Len(outcomes))
    /\ result.error = outcomes[Len(outcomes)].error
    /\ Len(waits) = Len(outcomes) - 1
    /\ calls = Len(outcomes)

\* a transient failure on the final permitted attempt, after a different
\* transient failure on the first
C15_Witness ==
  /\ GaveUp
  /\ maxRetries = DefaultMaxRetries
  /\ Len(outcomes) = maxRetries
  /\ outcomes[1].error = ApiError503
  /\ outcomes[3].error = ApiError429
  /\ result.error = ApiError429
  /\ Len(waits) = 2

\* ------------------------------------------------------------------------
\* C16
\* ------------------------------------------------------------------------

\* C16: the i-th backoff wait, taken after failed attempt number i - 1, is
\* at least 2^(i-1) seconds and less than one second more, so the waits of
\* one dispatch are strictly increasing and below 2^(maxRetries-1) seconds.
C16_BackoffSchedule ==
  /\ Len(waits) <= Len(outcomes)
  /\ \A i \in 1..Len(waits) :
       /\ FailedAt(i)
       /\ waits[i] >= (2 ^ (i - 1)) * 1000
       /\ waits[i] < (2 ^ (i - 1)) * 1000 + 1000
       /\ waits[i] < (2 ^ (maxRetries - 1)) * 1000
       /\ \A j \in 1..(i - 1) : waits[j] < waits[i]

\* the largest jitter on the first wait and the smallest on the second
C16_Witness ==
  /\ entry = "callWithRetry"
  /\ svc = "geminiService"
  /\ Len(waits) = 3
  /\ waits[1] = 1999
  /\ waits[2] = 2000

\* ------------------------------------------------------------------------
\* C17
\* ------------------------------------------------------------------------

RECURSIVE SumSeq(_)
SumSeq(seq) == IF seq = << >> THEN 0 ELSE Head(seq) + SumSeq(Tail(seq))

\* the backoff wait accumulated so far, in milliseconds
TotalWait == SumSeq(waits)

\* C17: with the default 3 attempts the accumulated backoff wait of a cloud
\* dispatch never exceeds 10 seconds, and is at least 3 seconds once both
\* retries have been taken.
C17_TotalWaitBetween3And10Seconds ==
  (entry = "getBibleWisdom" /\ CloudPath) =>
    /\ Len(waits) <= DefaultMaxRetries - 1
    /\ TotalWait <= 10000
    /\ Len(waits) = DefaultMaxRetries - 1 => TotalWait >= 3000

\* both retries taken with the largest jitter
C17_Witness ==
  /\ Resolved
  /\ svc = "geminiService"
  /\ Len(waits) = 2
  /\ calls = 3
  /\ TotalWait = 3000 + 2 * (JitterRangeMs - 1)

\* ------------------------------------------------------------------------
\* C18
\* ------------------------------------------------------------------------

\* C18: at most one getBibleWisdom call of the controller is outstanding,
\* isLoading is true exactly while one is, and an invocation of handleSend
\* that finds one outstanding appends no message and starts no dispatch.
C18_SubmissionsSerialized ==
  /\ [](Len(dispatches) <= 1 /\ (isLoading <=> Len(dispatches) = 1))
  /\ [][(sendCount' = sendCount + 1 /\ Len(dispatches) >= 1) =>
          (messages' = messages /\ dispatches' = dispatches)]_vars

\* a send with text arrived while a dispatch was outstanding, and that
\* dispatch is still the only one
C18_Witness ==
  /\ entry = "handleSend"
  /\ refused >= 1
  /\ Len(dispatches) = 1
  /\ Len(messages) = 2

\* ------------------------------------------------------------------------
\* C19
\* ------------------------------------------------------------------------

\* the last transport call resolved with a payload that does not parse (or
\* is absent, or parses to null) or with an object lacking a field
MalformedResponse ==
  /\ CloudPath
  /\ Len(outcomes) >= 1
  /\ LET last == outcomes[Len(outcomes)]
     IN  /\ last.kind = "ok"
         /\ last.text.type = "object" => DOMAIN last.text.obj # Fields

\* the result is the payload's object with a fallback in the place of each
\* field it lacks
FallbackSubstituted ==
  /\ IsNormalized(result)
  /\ ~ErrorPopulated(result)
  /\ LET text == outcomes[Len(outcomes)].text
         data == IF text.type = "object" THEN text.obj ELSE << >>
     IN  \A k \in Fields :
           result.fields[k] \in
             (IF k \in DOMAIN data THEN {data[k], FallbackOf[k]}
                                   ELSE {FallbackOf[k]})

StructuredError == IsNormalized(result) /\ ErrorPopulated(result)

\* C19: once the transport call has succeeded with a malformed payload, the
\* dispatch is settled with no further transport call, and its result is
\* either the fallback substitution or a structured error result.
C19_MalformedNeverRetried ==
  MalformedResponse =>
    /\ Settled
    /\ calls = Len(outcomes)
    /\ FallbackSubstituted \/ StructuredError

\* ------------------------------------------------------------------------
\* C20
\* ------------------------------------------------------------------------

\* what a call of getBibleWisdom running alone has returned once its
\* transport calls have had the outcomes outs (Pending while it still runs)
SoloResult(m, key, outs) ==
  IF apiKeyMissing(key) THEN ConfigResult(m)
  ELSE IF Len(outs) = 0 THEN Pending
  ELSE LET last == outs[Len(outs)]
       IN  IF last.kind = "ok" THEN ClientOnReturn(m, last.text)
           ELSE IF isRetryable(m, last.error) /\ Len(outs) < DefaultMaxRetries
             THEN Pending
           ELSE ClientCatch(m, last.error)

\* C20: of the calls running side by side, each makes at most maxRetries
\* transport calls, each counts its own backoffs and remembers its own last
\* error, and each has returned exactly what it would have returned alone
\* with the outcomes of its own transport calls.
C20_DispatchesIndependent ==
  \A d \in Dispatches :
    LET f == frames[d]
    IN  /\ f.calls <= DefaultMaxRetries
        /\ f.attempt = Len(f.waits) - (IF f.pc = "AwaitingRetry" THEN 1 ELSE 0)
        /\ (f.lastError = NoError) <=> (\A i \in 1..Len(f.outcomes) : f.outcomes[i].kind = "ok")
        /\ \A i \in 1..Len(f.outcomes) :
             (f.outcomes[i].kind = "error"
                /\ \A j \in (i + 1)..Len(f.outcomes) : f.outcomes[j].kind = "ok")
               => f.lastError = f.outcomes[i].error
        /\ f.pc # "Idle" => f.result = SoloResult(svc, apiKey, f.outcomes)

\* two calls that interleaved, each through both of its backoffs, and
\* returned different results: one an error result, the other the answer
C20_Witness ==
  /\ entry = "concurrent"
  /\ \A d \in Dispatches :
       frames[d].pc = "Done" /\ frames[d].interleaved /\ frames[d].calls = DefaultMaxRetries
  /\ ErrorPopulated(frames["d1"].result)
  /\ ~ErrorPopulated(frames["d2"].result)
  /\ ContentPopulated(frames["d2"].result)

\* ------------------------------------------------------------------------
\* C21
\* ------------------------------------------------------------------------

\* a dispatch has just been started / has just settled
DispatchStarts == Len(dispatches') > Len(dispatches)

DispatchEnds == Len(dispatches') < Len(dispatches)

\* C21: starting or settling a dispatch leaves the settings and the selected
\* version as they are; a dispatch is made with the version and the settings
\* of the moment it starts; a change of either while it is outstanding
\* leaves its transport and its request as they are; and the result it
\* settles with comes from the transport it started with, and the assistant
\* message it appends carries the version it sent.
C21_SettingsReadOnceAtStart ==
  /\ [][(DispatchStarts \/ DispatchEnds) =>
          (aiSettings' = aiSettings /\ bibleVersion' = bibleVersion)]_vars
  /\ [][DispatchStarts =>
          dispatches'[Len(dispatches')] =
            Dispatch(svc, dispatches'[Len(dispatches')].text, bibleVersion,
                     aiSettings)
            @@ [retry |-> dispatches'[Len(dispatches')].retry]]_vars
  /\ [][(aiSettings' # aiSettings \/ bibleVersion' # bibleVersion) =>
          dispatches' = dispatches]_vars
  /\ [][DispatchEnds =>
          /\ delivered'.transport = dispatches[1].transport
          /\ delivered'.result \in DispatchResults(svc, dispatches[1])
          /\ Len(messages') > Len(messages) =>
               messages'[Len(messages')].metadata.version
                 = dispatches[1].request.version]_vars

\* a dispatch that went to the local client has appended its answer after
\* the user had switched to the cloud provider and to another version
C21_Witness ==
  /\ entry = "settings"
  /\ delivered.type = "settled"
  /\ delivered.changed
  /\ delivered.transport = "ollama"
  /\ aiSettings.provider = "gemini"
  /\ messages[Len(messages)].role = "assistant"
  /\ messages[Len(messages)].metadata.version # bibleVersion
  /\ isLoading = FALSE

\* ------------------------------------------------------------------------
\* C22
\* ------------------------------------------------------------------------

\* the last transport call of the dispatch came back with a response: the
\* cloud call resolved, or the local endpoint answered with a content
TransportSucceeded ==
  /\ Len(outcomes) >= 1
  /\ LET last == outcomes[Len(outcomes)]
     IN  \/ last.kind = "ok"
         \/ last.kind = "local" /\ last.out.type = "content"

\* C22: whatever the translation version, a dispatch whose transport call
\* succeeded has returned an object with the four content fields non-empty
\* and without an error field.
C22_SuccessIsFullyPopulated ==
  (Resolved /\ TransportSucceeded /\ version \in BibleVersions) =>
    /\ ContentPopulated(result)
    /\ "error" \notin DOMAIN result.fields

\* ------------------------------------------------------------------------
\* C23
\* ------------------------------------------------------------------------

\* a well-formed result: either its four content fields are populated or
\* its error is, and not both
WellFormed(r) == ContentPopulated(r) # ErrorPopulated(r)

RoundTripDone == entry = "codec" /\ trip.stage = "decoded again"

\* C23 as stated: every well-formed result comes back from encode and
\* decode as it was, and a second encode and decode changes nothing.
C23_AsStated ==
  (RoundTripDone /\ WellFormed(trip.r)) =>
    (trip.once = trip.r /\ trip.twice = trip.once)

\* C23: a result with its four content fields populated and no error comes
\* back from encode and decode as it was, in both modules; in aiService.ts
\* so does every well-formed result; and a second encode and decode changes
\* nothing, for any result.
C23_RoundTripOfContentResults ==
  RoundTripDone =>
    /\ trip.twice = trip.once
    /\ (ContentPopulated(trip.r) /\ ~ErrorPopulated(trip.r)) => trip.once = trip.r
    /\ (svc = "aiService" /\ WellFormed(trip.r)) => trip.once = trip.r

\* the full result has gone through the parse step of geminiService.ts
\* twice and has come back as it was
C23_Witness ==
  /\ RoundTripDone
  /\ svc = "geminiService"
  /\ trip.r = Obj(FullObject)
  /\ trip.twice = trip.r

\* ------------------------------------------------------------------------
\* C24
\* ------------------------------------------------------------------------

\* the result holds an error message
ErrorPresent(r) == r # Null /\ Truthy(Get(r.fields, "error"))

\* the last message is the assistant message that carries the four content
\* fields of the result
CarriesResult(msg, r) ==
  /\ msg.role = "assistant"
  /\ r # Null
  /\ msg.content = Get(r.fields, "answer")
  /\ \A k \in {"reference", "topic", "explanation"} :
       Get(msg.metadata, k) = Get(r.fields, k)

\* C24: when the awaited result has an error the controller appends no
\* message and sets lastError to that error; when it has none the controller
\* appends exactly one assistant message carrying the four content fields
\* of the result and leaves lastError null.
C24_BranchesOnErrorOnly ==
  [][ (entry = "handleSend" /\ DispatchEnds) =>
        LET r == delivered'.result
        IN  IF ErrorPresent(r)
              THEN /\ messages' = messages
                   /\ appLastError' = r.fields.error
              ELSE /\ Len(messages') = Len(messages) + 1
                   /\ SubSeq(messages', 1, Len(messages)) = messages
                   /\ CarriesResult(messages'[Len(messages')], r)
                   /\ appLastError' = AppNoError ]_vars

\* ------------------------------------------------------------------------
\* C25
\* ------------------------------------------------------------------------

\* C25: once the page is open the selected version is one of the six
\* versions, whatever the storage held, and so is the version of every
\* dispatch.
C25_VersionIsEnumerated ==
  (entry = "favorites" /\ mounted) =>
    /\ bibleVersion \in BibleVersions
    /\ \A i \in 1..Len(dispatches) : dispatches[i].version \in BibleVersions

\* ------------------------------------------------------------------------
\* C26
\* ------------------------------------------------------------------------

\* the ids of the favorites, in their order
Ids(saved) == [i \in 1..Len(saved) |-> saved[i].id]

\* C26: a page reload gives back the favorites it found: the list restored
\* from 'bible_favorites' has the entries the list had before, in the same
\* order, and the key still holds them after the effects of the mount.
C26_FavoritesSurviveReload ==
  [][ (entry = "favorites" /\ mounted /\ delivered'.type = "reload") =>
        /\ Ids(savedAnswers') = Ids(savedAnswers)
        /\ savedAnswers' = savedAnswers
        /\ storage'.bible_favorites = StoredFavorites(savedAnswers)
        /\ savedAnswers # << >> => storage'.bible_favorites.json # << >> ]_vars

\* two favorites have come back from a reload
C26_Witness ==
  /\ entry = "favorites"
  /\ delivered.type = "reload"
  /\ Len(savedAnswers) = 2
  /\ Len(storage.bible_favorites.json) = 2
  /\ messages = << WelcomeMessage >>

\* ------------------------------------------------------------------------
\* C27
\* ------------------------------------------------------------------------

\* C27: whenever handleSend has started a dispatch, isLoading returns to
\* false, whichever way the dispatch ends.
C27_LoadingEnds == (entry = "handleSend" /\ isLoading) ~> ~isLoading

\* a dispatch has ended with an exception thrown while its result was
\* handled, and the controller is no longer loading
C27_Witness ==
  /\ entry = "handleSend"
  /\ delivered.type = "settled"
  /\ delivered.result = Null
  /\ appLastError = TypeErr.message
  /\ ~isLoading

\* ------------------------------------------------------------------------
\* C28
\* ------------------------------------------------------------------------

\* handleSend was called by the retry button and has started a dispatch
RetryStarts == DispatchStarts /\ dispatches'[Len(dispatches')].retry

\* the dispatch of a retry ends with a result that has no error
RetrySucceeds ==
  /\ DispatchEnds
  /\ delivered'.retry
  /\ delivered'.result # Null
  /\ ~ErrorPresent(delivered'.result)

\* C28: while lastError is set the last message is the user message whose
\* dispatch failed; the retry button dispatches the content of that message
\* and appends nothing; and a retry that succeeds appends its assistant
\* message directly after that user message.
C28_RetryResendsLastUserMessage ==
  /\ [](( entry = "handleSend" /\ appLastError # AppNoError) =>
          /\ messages[Len(messages)].role = "user"
          /\ delivered.type = "settled"
          /\ messages[Len(messages)].content = delivered.text
          /\ (delivered.result = Null \/ ErrorPresent(delivered.result)))
  /\ [][ (entry = "handleSend" /\ RetryStarts) =>
           /\ messages' = messages
           /\ dispatches'[Len(dispatches')].text = messages[Len(messages)].content
           /\ messages[Len(messages)].role = "user" ]_vars
  /\ [][ (entry = "handleSend" /\ RetrySucceeds) =>
           /\ Len(messages') = Len(messages) + 1
           /\ SubSeq(messages', 1, Len(messages)) = messages
           /\ messages'[Len(messages')].role = "assistant"
           /\ messages[Len(messages)].role = "user"
           /\ messages[Len(messages)].content = delivered'.text ]_vars

\* a retry has succeeded: the history is the welcome, the one user message
\* and the answer to it
C28_Witness ==
  /\ entry = "handleSend"
  /\ delivered.type = "settled"
  /\ delivered.retry
  /\ ~ErrorPresent(delivered.result)
  /\ Len(messages) = 3
  /\ messages[2].role = "user"
  /\ messages[3].role = "assistant"
  /\ appLastError = AppNoError

\* ------------------------------------------------------------------------
\* C29
\* ------------------------------------------------------------------------

\* the set of the saved ids
IdSet(saved) == { saved[i].id : i \in 1..Len(saved) }

\* toggleFavorite has acted on the message with the id delivered'.id
ToggleActs == delivered'.type = "toggle" /\ savedAnswers' # savedAnswers

\* removeFavorite has acted on the entry with the id delivered'.id
RemoveActs == delivered'.type = "remove" /\ savedAnswers' # savedAnswers

CarriesMetadata(msg) == msg.role = "assistant" /\ "metadata" \in DOMAIN msg

\* toggleFavorite has created the favorite savedAnswers'[1]
FavoriteCreated == ToggleActs /\ Len(savedAnswers') > Len(savedAnswers)

\* C30: every assistant message with metadata comes directly after a user
\* message; it is appended directly after the user message whose content
\* was dispatched; and the question of a favorite toggleFavorite creates is
\* the content of the user message before the toggled message, never the
\* placeholder.
C30_QuestionIsThePrompt ==
  /\ [](entry = "favorites" =>
          \A i \in 1..Len(messages) :
            CarriesMetadata(messages[i]) =>
              i > 1 /\ messages[i - 1].role = "user")
  /\ [][ (entry = "favorites" /\ DispatchEnds /\ Len(messages') > Len(messages)) =>
           /\ CarriesMetadata(messages'[Len(messages')])
           /\ SubSeq(messages', 1, Len(messages)) = messages
           /\ messages[Len(messages)].role = "user"
           /\ messages[Len(messages)].content = delivered'.text ]_vars
  /\ [][ (entry = "favorites" /\ FavoriteCreated) =>
           \A i \in 1..Len(messages) :
             (CarriesMetadata(messages[i]) /\ messages[i].id = delivered'.id) =>
               /\ savedAnswers'[1].id = delivered'.id
               /\ savedAnswers'[1].question = messages[i - 1].content
               /\ savedAnswers'[1].question \notin
                    {QuestionPlaceholder(svc), messages[i].content} ]_vars

\* a favorite has been created from an assistant message whose id is also
\* the id of the user message after it, and its question is the prompt
\* before it
C30_Witness ==
  /\ entry = "favorites"
  /\ delivered.type = "toggle"
  /\ Len(savedAnswers) > 0
  /\ \E i \in 2..(Len(messages) - 1) :
       /\ CarriesMetadata(messages[i])
       /\ messages[i].id = delivered.id
       /\ messages[i + 1].id = messages[i].id
       /\ messages[i + 1].role = "user"
       /\ savedAnswers[1].id = messages[i].id
       /\ savedAnswers[1].question = messages[i - 1].content

====
